---- MODULE Spec2Model ----
(***************************************************************************)
(* Model of the multi-agent system of src/main.py: the bounded memory log  *)
(* (AIChatHistory), the action dispatcher with argument reconciliation     *)
(* (BaseAgent.execute_action / map_parameters), the handlers of the six    *)
(* agent classes, the agent loop (BaseAgent.run) and the scheduler (main). *)
(*                                                                         *)
(* Python values are modelled as follows.  A dict is a function whose      *)
(* DOMAIN is its key set.  A text built by an f-string is the tuple of its *)
(* fixed part and its interpolated values.  json.dumps(v) is <<"json", v>>.*)
(* A raised exception is a record carrying its type and its message.       *)
(***************************************************************************)
EXTENDS Integers, Sequences, FiniteSets, TLC

VARIABLES
    pc,           \* per agent: position of its worker in BaseAgent.run
    iter,         \* per agent: the loop variable i of BaseAgent.run
    memory,       \* per agent: AIChatHistory.messages
    thought,      \* per agent: the local `thought` of run
    result,       \* per agent: the local `action` of run (act's return value)
    domain,       \* per agent: its domain-state dicts (codebase, test_results, ...)
    trace,        \* per agent: what its last execute_action call did
    status,       \* per agent: what main logged for its future
    mainpc,       \* position of main
    developer_bound, \* whether the module global `developer` is assigned
    max_iterations,  \* the max_iterations argument of the run calls
    history,      \* an AIChatHistory used on its own: max_messages and messages
    appended,     \* every message given to history's add_message, in call order
    context       \* the last get_context call on history: last_n and what it returned

\* the variables of the agents and of main
agentvars == <<pc, iter, memory, thought, result, domain, trace, status, mainpc,
               developer_bound, max_iterations>>
\* the variables of the AIChatHistory used on its own
logvars == <<history, appended, context>>

vars == <<pc, iter, memory, thought, result, domain, trace, status, mainpc,
          developer_bound, max_iterations, history, appended, context>>

----------------------------------------------------------------------------
(* Bounds of the model *)

\* max_iterations handed to every agent.run (main passes 10)
MaxIter == 2
\* how many of main's agents are constructed and scheduled
NumAgents == 2
\* largest number of keyword arguments in an explored tool call
MaxParams == 2
\* largest max_messages of an AIChatHistory used on its own
MaxCapacity == 3
\* largest number of add_message calls on an AIChatHistory used on its own
MaxAppends == 4
\* get_context is called with every last_n up to this one, and with 5 and 10
MaxLastN == 4
\* max_iterations of the longest single run explored: more than a third of
\* max_messages, so that the run appends more than the log holds
LongRun == 34

----------------------------------------------------------------------------
(* Python values *)

\* argument values a tool call can carry: two strings and a JSON list,
\* which is a value Python cannot hash
Unhashable == "['u']"
Values == {"x", "y", Unhashable}
Hashable(v) == v # Unhashable
\* Python truthiness of a text: only the empty text is false
Truthy(v) == v # ""

EmptyDict == <<>>
DictSet(d, k, v) == [x \in (DOMAIN d) \cup {k} |-> IF x = k THEN v ELSE d[x]]
DictGet(d, k, default) == IF k \in DOMAIN d THEN d[k] ELSE default

\* Optional[...]: None or a value
None == [some |-> FALSE, value |-> <<>>]
Some(v) == [some |-> TRUE, value |-> v]

\* the contents generate_response(...).get('content', '') can have inside a
\* handler: '' (the call failed, or the reply has no content) or a text
GenReplies == {"", "g"}

----------------------------------------------------------------------------
(* Agents *)

\* main's six agents; the developer and the tester, which share
\* developer.codebase, come first so that the first NumAgents include them
AllAgents == <<"developer", "tester", "researcher", "custom_specialist",
               "entrepreneur", "peer_reviewer">>
AgentNames == {AllAgents[i] : i \in 1..Len(AllAgents)}
Min(m, n) == IF m < n THEN m ELSE n
\* the agents main constructs and submits in this model
Agents == {AllAgents[i] : i \in 1..Min(NumAgents, Len(AllAgents))}

ClassOf(a) ==
    CASE a = "entrepreneur"      -> "EntrepreneurAgent"
      [] a = "developer"         -> "DeveloperAgent"
      [] a = "tester"            -> "TesterAgent"
      [] a = "researcher"        -> "ResearchAgent"
      [] a = "custom_specialist" -> "CustomSpecialistAgent"
      [] a = "peer_reviewer"     -> "PeerReviewAgent"

\* CustomSpecialistAgent.specialty as main constructs it
Specialty == "Financial Analysis"

\* get_action_map: the action names of each class, with the keyword names of
\* each handler's signature (every parameter is required, none has a default)
Signatures(cls) ==
    CASE cls = "EntrepreneurAgent" ->
           [develop_business_plan        |-> {},
            conduct_market_research      |-> {"business_idea"},
            create_financial_projections |-> {},
            plan_product_development     |-> {},
            design_marketing_strategy    |-> {}]
      [] cls = "DeveloperAgent" ->
           [write_code         |-> {"feature_name", "code"},
            review_code        |-> {"feature_name"},
            integrate_ai_model |-> {"model_name", "integration_code"}]
      [] cls = "TesterAgent" ->
           [run_tests            |-> {"feature_name"},
            analyze_test_results |-> {"feature_name"},
            report_bugs          |-> {"feature_name", "bug_description"}]
      [] cls = "ResearchAgent" ->
           [conduct_research |-> {"topic"},
            analyze_data     |-> {"topic"},
            report_findings  |-> {"topic", "findings"}]
      [] cls = "CustomSpecialistAgent" ->
           [perform_task    |-> {"task"},
            analyze_results |-> {"task"},
            report_findings |-> {"task"}]
      [] cls = "PeerReviewAgent" ->
           [review_work      |-> {"agent_name", "work"},
            provide_feedback |-> {"agent_name", "feedback"}]

get_action_map(cls) == DOMAIN Signatures(cls)

----------------------------------------------------------------------------
(* Handlers.  Each takes the dict it works on, the bound keyword arguments *)
(* and, when it calls generate_response, the content of the reply.  It     *)
(* yields the exception it raised ("none": it returned), its return value  *)
(* (or the exception's message), the dict as it left it, and the number of *)
(* Generator calls it made.                                                *)

Ok(res, dom, g) == [exc |-> "none", result |-> res, dom |-> dom, gen |-> g]
\* faulty variant of Raised: the failing invocation leaves an entry in the dict
Raised_partial(type, msg, dom, g) ==
    [exc |-> type, result |-> <<msg>>, dom |-> DictSet(dom, "partial", msg), gen |-> g]
Raised(type, msg, dom, g) == [exc |-> type, result |-> <<msg>>, dom |-> dom, gen |-> g]
\* a dict lookup or store with a key that is a list
UnhashableKey(dom, g) == Raised("TypeError", "unhashable type: 'list'", dom, g)

\* EntrepreneurAgent: each handler assigns a fixed payload to one attribute
develop_business_plan(dom) ==
    Ok(<<"Business plan developed and updated.">>,
       DictSet(dom, "business_plan", "payload"), 0)
conduct_market_research(dom, args) ==
    Ok(<<"Market research conducted and updated.">>,
       DictSet(dom, "market_research", "payload"), 0)
create_financial_projections(dom) ==
    Ok(<<"Financial projections created and updated.">>,
       DictSet(dom, "financial_projections", "payload"), 0)
plan_product_development(dom) ==
    Ok(<<"Product development plan created and updated.">>,
       DictSet(dom, "product_development", "payload"), 0)
design_marketing_strategy(dom) ==
    Ok(<<"Marketing strategy designed and updated.">>,
       DictSet(dom, "marketing_strategy", "payload"), 0)

\* DeveloperAgent: dom is self.codebase
write_code(dom, args) ==
    IF ~Hashable(args.feature_name) THEN UnhashableKey(dom, 0)
    ELSE Ok(<<"Code written for", args.feature_name>>,
            DictSet(dom, args.feature_name, args.code), 0)
review_code(dom, args, reply) ==
    IF ~Hashable(args.feature_name) THEN UnhashableKey(dom, 0)
    ELSE IF ~Truthy(DictGet(dom, args.feature_name, ""))
         THEN Ok(<<"No code found for feature", args.feature_name>>, dom, 0)
         ELSE Ok(<<"Code review for", args.feature_name, reply>>, dom, 1)
integrate_ai_model(dom, args) ==
    Ok(<<"AI model integrated successfully", args.model_name>>,
       DictSet(dom, "ai_integration_" \o args.model_name, args.integration_code), 0)

\* TesterAgent: dom is self.test_results; codebase is developer.codebase,
\* read through the module global `developer`
run_tests(dom, args, reply, bound, codebase) ==
    IF ~bound THEN Raised("NameError", "name 'developer' is not defined", dom, 0)
    ELSE IF ~Hashable(args.feature_name) THEN UnhashableKey(dom, 0)
    ELSE IF ~Truthy(DictGet(codebase, args.feature_name, ""))
         THEN Ok(<<"No code available for feature", args.feature_name>>, dom, 0)
         ELSE Ok(<<"Tests completed successfully", args.feature_name>>,
                 DictSet(dom, args.feature_name, reply), 1)
analyze_test_results(dom, args, reply) ==
    IF ~Hashable(args.feature_name) THEN UnhashableKey(dom, 0)
    ELSE IF ~Truthy(DictGet(dom, args.feature_name, ""))
         THEN Ok(<<"No test results found for feature", args.feature_name>>, dom, 0)
         ELSE Ok(<<"Test results for", args.feature_name, reply>>, dom, 1)
report_bugs(dom, args) ==
    Ok(<<"Bug reported for", args.feature_name, args.bug_description>>, dom, 0)

\* ResearchAgent: dom is self.research_data
conduct_research(dom, args, reply) ==
    IF ~Hashable(args.topic) THEN UnhashableKey(dom, 1)
    ELSE Ok(<<"Research completed successfully", args.topic>>,
            DictSet(dom, args.topic, reply), 1)
analyze_data(dom, args, reply) ==
    IF ~Hashable(args.topic) THEN UnhashableKey(dom, 0)
    ELSE IF ~Truthy(DictGet(dom, args.topic, ""))
         THEN Ok(<<"No research data found for topic", args.topic>>, dom, 0)
         ELSE Ok(<<"Data analysis for", args.topic, reply>>, dom, 1)
research_report_findings(dom, args) ==
    Ok(<<"Findings reported for", args.topic, args.findings>>, dom, 0)

\* CustomSpecialistAgent: dom is self.specialist_data
perform_task(dom, args, reply) ==
    IF ~Hashable(args.task) THEN UnhashableKey(dom, 1)
    ELSE Ok(<<"task completed successfully", Specialty, args.task>>,
            DictSet(dom, args.task, reply), 1)
analyze_results(dom, args, reply) ==
    IF ~Hashable(args.task) THEN UnhashableKey(dom, 0)
    ELSE IF ~Truthy(DictGet(dom, args.task, ""))
         THEN Ok(<<"No data found for task", Specialty, args.task>>, dom, 0)
         ELSE Ok(<<"Results analysis for task", Specialty, args.task, reply>>, dom, 1)
custom_report_findings(dom, args, reply) ==
    IF ~Hashable(args.task) THEN UnhashableKey(dom, 0)
    ELSE IF ~Truthy(DictGet(dom, args.task, ""))
         THEN Ok(<<"No data to report for task", Specialty, args.task>>, dom, 0)
         ELSE Ok(<<"Findings reported for task", Specialty, args.task, reply>>, dom, 1)

\* PeerReviewAgent: dom is self.review_data
review_work(dom, args, reply) ==
    IF ~Hashable(args.agent_name) THEN UnhashableKey(dom, 0)
    ELSE Ok(<<"Work reviewed successfully", args.agent_name>>,
            DictSet(dom, args.agent_name, args.work), 1)
provide_feedback(dom, args) ==
    Ok(<<"Feedback provided for", args.agent_name, args.feedback>>, dom, 0)

\* the body of the handler that get_action_map(cls) gives for `action`
HandlerBody(cls, action, dom, args, reply, bound, codebase) ==
    CASE action = "develop_business_plan"        -> develop_business_plan(dom)
      [] action = "conduct_market_research"      -> conduct_market_research(dom, args)
      [] action = "create_financial_projections" -> create_financial_projections(dom)
      [] action = "plan_product_development"     -> plan_product_development(dom)
      [] action = "design_marketing_strategy"    -> design_marketing_strategy(dom)
      [] action = "write_code"                   -> write_code(dom, args)
      [] action = "review_code"                  -> review_code(dom, args, reply)
      [] action = "integrate_ai_model"           -> integrate_ai_model(dom, args)
      [] action = "run_tests"            -> run_tests(dom, args, reply, bound, codebase)
      [] action = "analyze_test_results"         -> analyze_test_results(dom, args, reply)
      [] action = "report_bugs"                  -> report_bugs(dom, args)
      [] action = "conduct_research"             -> conduct_research(dom, args, reply)
      [] action = "analyze_data"                 -> analyze_data(dom, args, reply)
      [] action = "report_findings" /\ cls = "ResearchAgent" ->
                                                    research_report_findings(dom, args)
      [] action = "report_findings" /\ cls = "CustomSpecialistAgent" ->
                                                    custom_report_findings(dom, args, reply)
      [] action = "perform_task"                 -> perform_task(dom, args, reply)
      [] action = "analyze_results"              -> analyze_results(dom, args, reply)
      [] action = "review_work"                  -> review_work(dom, args, reply)
      [] action = "provide_feedback"             -> provide_feedback(dom, args)

----------------------------------------------------------------------------
(* The dispatcher *)

\* action_func(**params) on a bound method: Python binds the keywords to the
\* signature before the body runs, and raises TypeError when a keyword is not
\* a parameter or a parameter gets no value
Binds(cls, action, params) == DOMAIN params = Signatures(cls)[action]
BindError(cls, action, params) ==
    IF (DOMAIN params) \ Signatures(cls)[action] # {}
    THEN "got an unexpected keyword argument"
    ELSE "missing required positional argument"
Invoke(cls, action, dom, params, reply, bound, codebase) ==
    IF Binds(cls, action, params)
    THEN HandlerBody(cls, action, dom, params, reply, bound, codebase)
    ELSE Raised("TypeError", BindError(cls, action, params), dom, 0)

\* faulty variant of Catches: an except clause that catches only its exact type
Catches_exact(c, e) == c = e

\* `except C` catches an exception of type e: every exception a handler
\* raises derives from Exception
Catches(c, e) == c = "Exception" \/ c = e

\* faulty variant of mappings: a table that also has an entry for write_code
mappings_write_code ==
    [conduct_market_research |-> [company_name   |-> "business_idea"],
     analyze_data            |-> [research_topic |-> "topic"],
     review_code             |-> [existing_code  |-> "feature_name"],
     report_findings         |-> [message        |-> "findings"],
     write_code              |-> [name |-> "feature_name", body |-> "code"]]

\* faulty variant of mappings: the report_findings entry also renames a
\* supplied subject to topic
mappings_report_subject ==
    [conduct_market_research |-> [company_name   |-> "business_idea"],
     analyze_data            |-> [research_topic |-> "topic"],
     review_code             |-> [existing_code  |-> "feature_name"],
     report_findings         |-> [message |-> "findings", subject |-> "topic"]]

\* the table of map_parameters: supplied name -> expected name, per action
mappings ==
    [conduct_market_research |-> [company_name   |-> "business_idea"],
     analyze_data            |-> [research_topic |-> "topic"],
     review_code             |-> [existing_code  |-> "feature_name"],
     report_findings         |-> [message        |-> "findings"]]

\* faulty variant of map_parameters: the comprehension without `if k in expected_params`,
\* so that the names the entry does not know are passed on unchanged
map_parameters_unfiltered(action, params) ==
    IF action \in DOMAIN mappings
    THEN LET expected_params == mappings[action]
             renamed(k) == IF k \in DOMAIN expected_params
                           THEN expected_params[k] ELSE k
             mapped == [e \in {renamed(k) : k \in DOMAIN params} |->
                          params[CHOOSE k \in DOMAIN params : renamed(k) = e]]
         IN  IF DOMAIN params # {} THEN Some(mapped) ELSE None
    ELSE None

\* faulty variant of map_parameters: the supplied dict is handed back when the table
\* has nothing for it, instead of None
map_parameters_passthrough(action, params) ==
    IF action \in DOMAIN mappings
       /\ (DOMAIN params) \cap (DOMAIN mappings[action]) # {}
    THEN LET expected_params == mappings[action]
             kept == (DOMAIN params) \cap (DOMAIN expected_params)
         IN  Some([e \in {expected_params[k] : k \in kept} |->
                     params[CHOOSE k \in kept : expected_params[k] = e]])
    ELSE IF DOMAIN params # {} THEN Some(params) ELSE None

\* {expected_params.get(k, k): v for k, v in params.items() if k in expected_params},
\* returned when it is not empty (no entry maps two names to one)
map_parameters(action, params) ==
    IF action \in DOMAIN mappings
    THEN LET expected_params == mappings[action]
             kept == (DOMAIN params) \cap (DOMAIN expected_params)
             mapped == [e \in {expected_params[k] : k \in kept} |->
                          params[CHOOSE k \in kept : expected_params[k] = e]]
         IN  IF kept # {} THEN Some(mapped) ELSE None
    ELSE None

\* what one execute_action call did: the text it returned (or the exception
\* that escaped it), the dict as the call found it, the keyword sets it
\* called the handler with, how often
\* the handler's body ran, whether map_parameters was called and what it
\* gave, the dict as the call left it, the Generator calls made, and the
\* line of the return statement taken
Done(action, params, before, res, exc, attempts, bodies, consulted, mapped, dom, g, line) ==
    [action |-> action, params |-> params, before |-> before, result |-> res,
     raised |-> exc,
     attempts |-> attempts, bodies |-> bodies, consulted |-> consulted,
     mapped |-> mapped, dom |-> dom, gen |-> g, line |-> line]

ErrorText(action, msg) == <<"Error executing action", action>> \o msg
UnexpectedText(action, msg) == <<"Unexpected error executing action", action>> \o msg
\* faulty variant of UnknownText: the text without the action name
UnknownText_noname(action) == <<"Unknown action">>
UnknownText(action) == <<"Unknown action", action>>

Ran(cls, action, params) == IF Binds(cls, action, params) THEN 1 ELSE 0

\* the `except TypeError as te` branch of execute_action (lines 85-95)
OnTypeError(cls, action, params, dom, first, replies, bound, codebase) ==
    LET mapped_params == map_parameters(action, params)
        ran1 == Ran(cls, action, params)
    IN  IF mapped_params.some
        THEN LET second == Invoke(cls, action, first.dom, mapped_params.value,
                                  replies[first.gen + 1], bound, codebase)
                 ran == ran1 + Ran(cls, action, mapped_params.value)
                 tried == <<params, mapped_params.value>>
                 g == first.gen + second.gen
             IN  IF second.exc = "none"
                 THEN Done(action, params, dom, second.result, "none", tried, ran, TRUE,
                           mapped_params, second.dom, g, 90)
                 ELSE IF Catches("Exception", second.exc)
                 THEN Done(action, params, dom, ErrorText(action, second.result), "none",
                           tried, ran, TRUE, mapped_params, second.dom, g, 93)
                 ELSE Done(action, params, dom, second.result, second.exc, tried, ran,
                           TRUE, mapped_params, second.dom, g, 90)
        ELSE Done(action, params, dom, ErrorText(action, first.result), "none",
                  <<params>>, ran1, TRUE, mapped_params, first.dom, first.gen, 95)

execute_action(cls, action, params, dom, replies, bound, codebase) ==
    IF action \in get_action_map(cls)
    THEN LET first == Invoke(cls, action, dom, params, replies[1], bound, codebase)
             ran1 == Ran(cls, action, params)
         IN  IF first.exc = "none"
             THEN Done(action, params, dom, first.result, "none", <<params>>, ran1, FALSE,
                       None, first.dom, first.gen, 84)
             ELSE IF Catches("TypeError", first.exc)
             THEN OnTypeError(cls, action, params, dom, first, replies, bound, codebase)
             ELSE IF Catches("Exception", first.exc)
             THEN Done(action, params, dom, UnexpectedText(action, first.result), "none",
                       <<params>>, ran1, FALSE, None, first.dom, first.gen, 98)
             ELSE Done(action, params, dom, first.result, first.exc, <<params>>, ran1,
                       FALSE, None, first.dom, first.gen, 84)
    ELSE Done(action, params, dom, UnknownText(action), "none", <<>>, 0, FALSE, None,
              dom, 0, 99)

----------------------------------------------------------------------------
(* The memory log *)

\* AIChatHistory.max_messages: BaseAgent constructs its log with the default
max_messages == 100

\* AIChatHistory(max_messages): an empty log of the given capacity
AIChatHistory(capacity) == [max_messages |-> capacity, messages |-> <<>>]

\* faulty variant of AIChatHistory_add_message: nothing is removed
AIChatHistory_add_message_keep(h, role, content) ==
    [h EXCEPT !.messages = Append(@, [role |-> role, content |-> content])]

\* faulty variant of AIChatHistory_add_message: pop() instead of pop(0), which
\* removes the message just appended
AIChatHistory_add_message_newest(h, role, content) ==
    LET grown == Append(h.messages, [role |-> role, content |-> content])
    IN  [h EXCEPT !.messages = IF Len(grown) > h.max_messages
                               THEN SubSeq(grown, 1, Len(grown) - 1) ELSE grown]

\* AIChatHistory.add_message: append, then pop(0) once when the log is longer
\* than max_messages
AIChatHistory_add_message(h, role, content) ==
    LET grown == Append(h.messages, [role |-> role, content |-> content])
    IN  [h EXCEPT !.messages = IF Len(grown) > h.max_messages
                               THEN Tail(grown) ELSE grown]

\* faulty variant of add_message: the agent's log is never trimmed
add_message_untrimmed(messages, role, content) ==
    Append(messages, [role |-> role, content |-> content])

\* self.memory.add_message(role, content) of an agent, whose log BaseAgent
\* constructs with the default capacity
add_message(messages, role, content) ==
    AIChatHistory_add_message([max_messages |-> max_messages, messages |-> messages],
                              role, content).messages

\* Python's messages[start:] for any integer start: a negative start counts
\* from the end, and a start beyond either end is clipped
SliceFrom(messages, start) ==
    LET n == Len(messages)
        from == IF start < 0 THEN (IF n + start > 0 THEN n + start ELSE 0)
                ELSE Min(start, n)
    IN  SubSeq(messages, from + 1, n)

\* AIChatHistory.get_context: self.messages[-last_n:]
get_context(h, last_n) == SliceFrom(h.messages, 0 - last_n)

\* no get_context call since the last add_message
NoContext == [called |-> FALSE, last_n |-> 0, value |-> <<>>]
\* no AIChatHistory is used on its own: the agents construct theirs
NoHistory ==
    /\ history = AIChatHistory(max_messages)
    /\ appended = <<>>
    /\ context = NoContext

json_dumps(v) == <<"json", v>>

----------------------------------------------------------------------------
(* Thoughts: what generate_response returns *)

\* a Thought is a dict with optional keys 'content' and 'tool_calls'
Thought(has_content, content, has_tool_calls, tool_calls) ==
    [has_content |-> has_content, content |-> content,
     has_tool_calls |-> has_tool_calls, tool_calls |-> tool_calls]
ToolCall(name, arguments) == [name |-> name, arguments |-> arguments]
\* generate_response returns {} when ollama.chat raises
EmptyThought == Thought(FALSE, "", FALSE, <<>>)

NoTrace == Done("", <<>>, <<>>, <<>>, "none", <<>>, 0, FALSE, None, <<>>, 0, 0)
NoResult == <<>>

\* f"No actionable instruction found in: {action.get('content', '')}"
NoInstructionText(t) ==
    <<"No actionable instruction found in", IF t.has_content THEN t.content ELSE "">>

\* faulty variant of act: the first tool call is taken without the test
\* `'tool_calls' in action`, so that a Thought without the key raises KeyError
act_untested(cls, t, dom, replies, bound, codebase) ==
    IF ~t.has_tool_calls
    THEN [NoTrace EXCEPT !.raised = "KeyError", !.dom = dom, !.before = dom,
                         !.result = <<"'tool_calls'">>]
    ELSE IF Len(t.tool_calls) = 0
         THEN [NoTrace EXCEPT !.raised = "IndexError", !.dom = dom, !.before = dom,
                              !.result = <<"list index out of range">>]
         ELSE execute_action(cls, t.tool_calls[1].name, t.tool_calls[1].arguments,
                             dom, replies, bound, codebase)

\* faulty variant of act: the last tool call of the Thought is dispatched
\* instead of the one at index 0
act_last_call(cls, t, dom, replies, bound, codebase) ==
    IF t.has_tool_calls
    THEN IF Len(t.tool_calls) = 0
         THEN [NoTrace EXCEPT !.raised = "IndexError", !.dom = dom, !.before = dom,
                              !.result = <<"list index out of range">>]
         ELSE LET tool_call == t.tool_calls[Len(t.tool_calls)]
              IN  execute_action(cls, tool_call.name, tool_call.arguments, dom,
                                 replies, bound, codebase)
    ELSE [NoTrace EXCEPT !.result = NoInstructionText(t), !.dom = dom,
                         !.before = dom]

\* BaseAgent.act up to its add_message: the text it produces, or the
\* exception that `action['tool_calls'][0]` raises on an empty list
act(cls, t, dom, replies, bound, codebase) ==
    IF t.has_tool_calls
    THEN IF Len(t.tool_calls) = 0
         THEN [NoTrace EXCEPT !.raised = "IndexError", !.dom = dom, !.before = dom,
                              !.result = <<"list index out of range">>]
         ELSE LET tool_call == t.tool_calls[1]
              IN  execute_action(cls, tool_call.name, tool_call.arguments, dom,
                                 replies, bound, codebase)
    ELSE [NoTrace EXCEPT !.result = NoInstructionText(t), !.dom = dom,
                         !.before = dom]

----------------------------------------------------------------------------
(* Inputs *)

AllActions == UNION {get_action_map(ClassOf(a)) : a \in AgentNames}
\* action names that are in no action map
UnknownNames == {"nonexistent_action", ""}
\* keyword names that are in no signature and in no mappings entry
StrayNames == {"name", "body"}

\* every dict over at most MaxParams of the given keyword names
ParamSets(names) ==
    UNION {[S -> Values] : S \in {T \in SUBSET names : Cardinality(T) <= MaxParams}}

\* the keyword names explored for an action: those of its signature, both
\* sides of its mappings entry, and the stray names
CandidateNames(cls, action) ==
    IF action \in get_action_map(cls)
    THEN Signatures(cls)[action] \cup StrayNames \cup
         (IF action \in DOMAIN mappings
          THEN (DOMAIN mappings[action]) \cup
               {mappings[action][k] : k \in DOMAIN mappings[action]}
          ELSE {})
    ELSE StrayNames

\* the replies of the Generator calls made inside handlers, in call order
ReplySeqs == [1..2 -> GenReplies]

\* the tool call the Generator asks of an agent of each class in Spec
MainCall(cls) ==
    CASE cls = "DeveloperAgent" ->
           ToolCall("write_code", [feature_name |-> "x", code |-> "y"])
      [] cls = "TesterAgent" -> ToolCall("run_tests", [feature_name |-> "x"])
      [] cls = "ResearchAgent" -> ToolCall("conduct_research", [topic |-> "x"])
      [] cls = "CustomSpecialistAgent" -> ToolCall("perform_task", [task |-> "x"])
      [] cls = "EntrepreneurAgent" -> ToolCall("develop_business_plan", <<>>)
      [] cls = "PeerReviewAgent" ->
           ToolCall("review_work", [agent_name |-> "x", work |-> "y"])
\* the Thoughts the Generator hands to an agent's loop in Spec: one tool
\* call, or an empty tool_calls list
MainThoughts(cls) ==
    {Thought(TRUE, "c", TRUE, <<>>), Thought(FALSE, "", TRUE, <<MainCall(cls)>>)}

\* the tool_calls lists explored in SpecLoop: a matching call, a mismatched
\* call with and without a mappings entry, a call whose handler fails in its
\* body, and an unknown action followed by a second tool call
LoopCalls(cls) ==
    CASE cls = "DeveloperAgent" ->
           {<<ToolCall("write_code", [feature_name |-> "x", code |-> "y"])>>,
            <<ToolCall("write_code", [name |-> "x", body |-> "y"])>>,
            <<ToolCall("review_code", [existing_code |-> "x"])>>,
            <<ToolCall("write_code", [feature_name |-> Unhashable, code |-> "y"])>>}
      [] cls = "TesterAgent" ->
           {<<ToolCall("run_tests", [feature_name |-> "x"])>>,
            <<ToolCall("report_bugs", [feature_name |-> "x"])>>,
            <<ToolCall("analyze_test_results", [feature_name |-> Unhashable])>>}
      [] cls = "ResearchAgent" ->
           {<<ToolCall("conduct_research", [topic |-> "x"])>>,
            <<ToolCall("analyze_data", [research_topic |-> "x"])>>,
            <<ToolCall("report_findings", [message |-> "x"])>>,
            <<ToolCall("conduct_research", [topic |-> Unhashable])>>}
      [] cls = "CustomSpecialistAgent" ->
           {<<ToolCall("perform_task", [task |-> "x"])>>,
            <<ToolCall("report_findings", [message |-> "x"])>>,
            <<ToolCall("report_findings", [task |-> "x"])>>,
            <<ToolCall("analyze_results", [task |-> Unhashable])>>}
      [] cls = "EntrepreneurAgent" ->
           {<<ToolCall("develop_business_plan", <<>>)>>,
            <<ToolCall("conduct_market_research", [company_name |-> "x"])>>,
            <<ToolCall("plan_product_development", [name |-> "x"])>>}
      [] cls = "PeerReviewAgent" ->
           {<<ToolCall("review_work", [agent_name |-> "x", work |-> "y"])>>,
            <<ToolCall("provide_feedback", [agent_name |-> "x"])>>,
            <<ToolCall("review_work", [agent_name |-> Unhashable, work |-> "y"])>>}
\* the Thoughts of SpecLoop: also free text without tool calls
LoopThoughts(cls) ==
    {EmptyThought, Thought(TRUE, "c", FALSE, <<>>), Thought(TRUE, "c", TRUE, <<>>),
     Thought(FALSE, "", TRUE, <<>>),
     Thought(TRUE, "c", TRUE, <<ToolCall("nonexistent_action", <<>>), MainCall(cls)>>)}
    \cup {Thought(FALSE, "", TRUE, calls) : calls \in LoopCalls(cls)}

----------------------------------------------------------------------------
(* The agent loop and the scheduler: main submits agent.run(max_iterations) *)
(* for every agent to a pool with one worker per agent, logs each future   *)
(* as it completes, and then dumps the agents.                             *)

Init ==
    /\ pc = [a \in Agents |-> IF MaxIter > 0 THEN "think" ELSE "done"]
    /\ iter = [a \in Agents |-> 0]
    /\ memory = [a \in Agents |-> <<>>]
    /\ thought = [a \in Agents |-> EmptyThought]
    /\ result = [a \in Agents |-> NoResult]
    /\ domain = [a \in Agents |-> EmptyDict]
    /\ trace = [a \in Agents |-> NoTrace]
    /\ status = [a \in Agents |-> "none"]
    /\ mainpc = "collect"
    /\ developer_bound = TRUE
    /\ max_iterations = MaxIter
    /\ NoHistory

\* faulty variant of Think: the Thought is returned without being appended
Think_unrecorded(a, t) ==
    /\ pc[a] = "think"
    /\ thought' = [thought EXCEPT ![a] = t]
    /\ pc' = [pc EXCEPT ![a] = "act"]
    /\ UNCHANGED <<memory, iter, result, domain, trace, status, mainpc,
                   developer_bound, max_iterations, logvars>>

\* BaseAgent.think: one Generator call, whose Thought t is appended as "agent"
Think(a, t) ==
    /\ pc[a] = "think"
    /\ thought' = [thought EXCEPT ![a] = t]
    /\ memory' = [memory EXCEPT ![a] = add_message(@, "agent", json_dumps(t))]
    /\ pc' = [pc EXCEPT ![a] = "act"]
    /\ UNCHANGED <<iter, result, domain, trace, status, mainpc, developer_bound, max_iterations,
                   logvars>>

\* faulty variant of Act: the handlers store into one dict that all
\* agents share, as a class attribute would be
Act_shared_dict(a) ==
    /\ pc[a] = "act"
    /\ \E replies \in ReplySeqs :
         LET r == act(ClassOf(a), thought[a], domain[a], replies, developer_bound,
                      domain["developer"])
         IN  /\ trace' = [trace EXCEPT ![a] = r]
             /\ domain' = [b \in DOMAIN domain |-> r.dom]
             /\ IF r.raised = "none"
                THEN /\ result' = [result EXCEPT ![a] = r.result]
                     /\ memory' = [memory EXCEPT ![a] =
                                     add_message(@, "environment",
                                                 <<"Action result", r.result>>)]
                     /\ pc' = [pc EXCEPT ![a] = "learn"]
                ELSE /\ pc' = [pc EXCEPT ![a] = "failed"]
                     /\ UNCHANGED <<result, memory>>
    /\ UNCHANGED <<iter, thought, status, mainpc, developer_bound, max_iterations, logvars>>

\* BaseAgent.act: dispatch of the first tool call, then the "environment"
\* append; an exception leaves run, and the worker stores it in the future
Act(a) ==
    /\ pc[a] = "act"
    /\ \E replies \in ReplySeqs :
         LET r == act(ClassOf(a), thought[a], domain[a], replies, developer_bound,
                      domain["developer"])
         IN  /\ trace' = [trace EXCEPT ![a] = r]
             /\ domain' = [domain EXCEPT ![a] = r.dom]
             /\ IF r.raised = "none"
                THEN /\ result' = [result EXCEPT ![a] = r.result]
                     /\ memory' = [memory EXCEPT ![a] =
                                     add_message(@, "environment",
                                                 <<"Action result", r.result>>)]
                     /\ pc' = [pc EXCEPT ![a] = "learn"]
                ELSE /\ pc' = [pc EXCEPT ![a] = "failed"]
                     /\ UNCHANGED <<result, memory>>
    /\ UNCHANGED <<iter, thought, status, mainpc, developer_bound, max_iterations, logvars>>

\* faulty variant of Learn: the next iteration is started without the
\* "experience" append
Learn_unrecorded(a) ==
    /\ pc[a] = "learn"
    /\ iter' = [iter EXCEPT ![a] = @ + 1]
    /\ pc' = [pc EXCEPT ![a] = IF iter[a] + 1 < max_iterations THEN "think" ELSE "done"]
    /\ UNCHANGED <<memory, thought, result, domain, trace, status, mainpc,
                   developer_bound, max_iterations, logvars>>

\* BaseAgent.learn, then the jitter sleep and the loop test of run
Learn(a) ==
    /\ pc[a] = "learn"
    /\ memory' = [memory EXCEPT ![a] =
                    add_message(@, "experience",
                                json_dumps([thought |-> thought[a],
                                            action |-> result[a]]))]
    /\ iter' = [iter EXCEPT ![a] = @ + 1]
    /\ pc' = [pc EXCEPT ![a] = IF iter[a] + 1 < max_iterations THEN "think" ELSE "done"]
    /\ UNCHANGED <<thought, result, domain, trace, status, mainpc, developer_bound, max_iterations,
                   logvars>>

\* faulty variant of Collect: the completion is logged whether or not
\* future.result() raised
Collect_always_completed(a) ==
    /\ mainpc = "collect"
    /\ status[a] = "none"
    /\ pc[a] \in {"done", "failed"}
    /\ status' = [status EXCEPT ![a] = "completed"]
    /\ UNCHANGED <<pc, iter, memory, thought, result, domain, trace, mainpc,
                   developer_bound, max_iterations, logvars>>

\* main's as_completed loop: future.result() of a finished run
Collect(a) ==
    /\ mainpc = "collect"
    /\ status[a] = "none"
    /\ pc[a] \in {"done", "failed"}
    /\ status' = [status EXCEPT ![a] =
                    IF pc[a] = "done" THEN "completed" ELSE "exception"]
    /\ UNCHANGED <<pc, iter, memory, thought, result, domain, trace, mainpc,
                   developer_bound, max_iterations, logvars>>

\* faulty variant of Display: display_agent_data is called without waiting
\* for the futures
Display_early ==
    /\ mainpc = "collect"
    /\ mainpc' = "displayed"
    /\ UNCHANGED <<pc, iter, memory, thought, result, domain, trace, status,
                   developer_bound, max_iterations, logvars>>

\* main leaves the executor block and calls display_agent_data
Display ==
    /\ mainpc = "collect"
    /\ \A a \in Agents : status[a] # "none"
    /\ mainpc' = "displayed"
    /\ UNCHANGED <<pc, iter, memory, thought, result, domain, trace, status,
                   developer_bound, max_iterations, logvars>>

Next ==
    \/ \E a \in Agents : \E t \in MainThoughts(ClassOf(a)) : Think(a, t)
    \/ \E a \in Agents : Act(a)
    \/ \E a \in Agents : Learn(a)
    \/ \E a \in Agents : Collect(a)
    \/ Display

Spec == Init /\ [][Next]_vars

\* every Generator call returns and the pool has one worker per agent, so
\* every step of every agent's run that can be taken is taken; main's
\* as_completed loop and its exit from the executor block are taken as well
Fairness ==
    /\ \A a \in Agents :
         /\ WF_vars(\E t \in MainThoughts(ClassOf(a)) : Think(a, t))
         /\ WF_vars(Act(a))
         /\ WF_vars(Learn(a))
         /\ WF_vars(Collect(a))
    /\ WF_vars(Display)

SpecFair == Spec /\ Fairness

----------------------------------------------------------------------------
(* One agent's run, called directly: agent.run(MaxIter) on one of the six  *)
(* agents, with every kind of Thought.  The module global `developer` may  *)
(* be unassigned (main has not run), and DeveloperAgent may have written   *)
(* code before.                                                            *)

Idle(runner) == [a \in AgentNames |-> IF a = runner THEN "think" ELSE "idle"]

InitLoop ==
    /\ \E runner \in AgentNames :
         /\ pc = IF MaxIter > 0 THEN Idle(runner) ELSE Idle("")
         /\ \E cb \in {EmptyDict, DictSet(EmptyDict, "x", "y")} :
              domain = [a \in AgentNames |->
                          IF a = "developer" /\ runner # a THEN cb ELSE EmptyDict]
    /\ iter = [a \in AgentNames |-> 0]
    /\ memory = [a \in AgentNames |-> <<>>]
    /\ thought = [a \in AgentNames |-> EmptyThought]
    /\ result = [a \in AgentNames |-> NoResult]
    /\ trace = [a \in AgentNames |-> NoTrace]
    /\ status = [a \in AgentNames |-> "none"]
    /\ mainpc = "none"
    /\ developer_bound \in BOOLEAN
    /\ max_iterations = MaxIter
    /\ NoHistory

NextLoop ==
    \/ \E a \in AgentNames : \E t \in LoopThoughts(ClassOf(a)) : Think(a, t)
    \/ \E a \in AgentNames : Act(a)
    \/ \E a \in AgentNames : Learn(a)

SpecLoop == InitLoop /\ [][NextLoop]_vars

----------------------------------------------------------------------------
(* execute_action called directly on one of the six agents, with every     *)
(* action name and every keyword dict of the explored names.  The agents   *)
(* are fresh, or each has executed the tool call of MainCall before.       *)

\* the handlers whose body calls generate_response
CallsGenerator(action) ==
    action \in {"review_code", "run_tests", "analyze_test_results",
                "conduct_research", "analyze_data", "perform_task",
                "analyze_results", "report_findings", "review_work"}
RepliesFor(action) ==
    IF CallsGenerator(action) THEN ReplySeqs ELSE {[i \in 1..2 |-> ""]}

\* the agents' dicts after agent.execute_action(MainCall) on every agent,
\* the developer first, the Generator replying "g"
AfterMainCall(cls, bound, codebase) ==
    execute_action(cls, MainCall(cls).name, MainCall(cls).arguments, EmptyDict,
                   [i \in 1..2 |-> "g"], bound, codebase).dom
Seeded(bound) ==
    [a \in AgentNames |->
       AfterMainCall(ClassOf(a), bound,
                     AfterMainCall("DeveloperAgent", bound, EmptyDict))]

InitDispatch ==
    /\ pc = Idle("")
    /\ iter = [a \in AgentNames |-> 0]
    /\ memory = [a \in AgentNames |-> <<>>]
    /\ thought = [a \in AgentNames |-> EmptyThought]
    /\ result = [a \in AgentNames |-> NoResult]
    /\ developer_bound \in BOOLEAN
    /\ domain \in {[a \in AgentNames |-> EmptyDict], Seeded(developer_bound)}
    /\ trace = [a \in AgentNames |-> NoTrace]
    /\ status = [a \in AgentNames |-> "none"]
    /\ mainpc = "none"
    /\ max_iterations = MaxIter
    /\ NoHistory

\* agent.execute_action(action, params), recorded in trace[a]
Dispatch(a, action, params) ==
    /\ mainpc = "none"
    /\ \E replies \in RepliesFor(action) :
         LET r == execute_action(ClassOf(a), action, params, domain[a], replies,
                                 developer_bound, domain["developer"])
         IN  /\ trace' = [trace EXCEPT ![a] = r]
             /\ domain' = [domain EXCEPT ![a] = r.dom]
    /\ mainpc' = "dispatched"
    /\ UNCHANGED <<pc, iter, memory, thought, result, status, developer_bound, max_iterations,
                   logvars>>

NextDispatch ==
    \E a \in AgentNames :
      \E action \in AllActions \cup UnknownNames :
        \E params \in ParamSets(CandidateNames(ClassOf(a), action)) :
          Dispatch(a, action, params)

SpecDispatch == InitDispatch /\ [][NextDispatch]_vars

----------------------------------------------------------------------------
(* An AIChatHistory used on its own: constructed with a capacity, then any *)
(* add_message and get_context calls.                                      *)

\* the message contents appended, all with one role
Contents == {"A", "B", "C", "D"}
LogRole == "user"
\* the values of last_n: get_context's default is 5
LastNs == (0..MaxLastN) \cup {5, 10}

InitLog ==
    /\ pc = Idle("")
    /\ iter = [a \in AgentNames |-> 0]
    /\ memory = [a \in AgentNames |-> <<>>]
    /\ thought = [a \in AgentNames |-> EmptyThought]
    /\ result = [a \in AgentNames |-> NoResult]
    /\ domain = [a \in AgentNames |-> EmptyDict]
    /\ trace = [a \in AgentNames |-> NoTrace]
    /\ status = [a \in AgentNames |-> "none"]
    /\ mainpc = "none"
    /\ developer_bound = FALSE
    /\ max_iterations = MaxIter
    /\ \E capacity \in 0..MaxCapacity : history = AIChatHistory(capacity)
    /\ appended = <<>>
    /\ context = NoContext

\* history.add_message(LogRole, content)
AddMessage(content) ==
    /\ Len(appended) < MaxAppends
    /\ history' = AIChatHistory_add_message(history, LogRole, content)
    /\ appended' = Append(appended, [role |-> LogRole, content |-> content])
    /\ context' = NoContext
    /\ UNCHANGED agentvars

\* history.get_context(last_n): reads the log and changes nothing
GetContext(last_n) ==
    /\ context' = [called |-> TRUE, last_n |-> last_n,
                   value |-> get_context(history, last_n)]
    /\ UNCHANGED <<history, appended, agentvars>>

NextLog ==
    \/ \E content \in Contents : AddMessage(content)
    \/ \E last_n \in LastNs : GetContext(last_n)

SpecLog == InitLog /\ [][NextLog]_vars

----------------------------------------------------------------------------
(* One agent's run with the entrypoint's max_iterations or with LongRun,   *)
(* on Thoughts that carry no tool call; the Thought of each iteration has  *)
(* a content of its own.                                                   *)

\* the max_iterations that main passes to every run
entry_max_iterations == 10

\* the Thought the Generator returns in iteration i of such a run
RunThoughts(i) == {Thought(TRUE, ToString(i), FALSE, <<>>)}

InitRun ==
    /\ \E runner \in AgentNames : pc = Idle(runner)
    /\ max_iterations \in {entry_max_iterations, LongRun}
    /\ iter = [a \in AgentNames |-> 0]
    /\ memory = [a \in AgentNames |-> <<>>]
    /\ thought = [a \in AgentNames |-> EmptyThought]
    /\ result = [a \in AgentNames |-> NoResult]
    /\ domain = [a \in AgentNames |-> EmptyDict]
    /\ trace = [a \in AgentNames |-> NoTrace]
    /\ status = [a \in AgentNames |-> "none"]
    /\ mainpc = "none"
    /\ developer_bound = TRUE
    /\ NoHistory

NextRun ==
    \/ \E a \in AgentNames : \E t \in RunThoughts(iter[a]) : Think(a, t)
    \/ \E a \in AgentNames : Act(a)
    \/ \E a \in AgentNames : Learn(a)

SpecRun == InitRun /\ [][NextRun]_vars

----------------------------------------------------------------------------
(* Reading a recorded execute_action call *)

\* agent a has a recorded execute_action call
Called(a) == trace[a].line # 0
KnownAction(a) == trace[a].action \in get_action_map(ClassOf(a))
\* the i-th handler invocation of the call was accepted by the signature
Bound(a, i) == Binds(ClassOf(a), trace[a].action, trace[a].attempts[i])
\* the invocations whose keywords the signature rejected
BindFails(a) == {i \in 1..Len(trace[a].attempts) : ~Bound(a, i)}
\* the invocations that returned: the last one, when the call returned at
\* line 84 or line 90
Returned(a) ==
    {i \in 1..Len(trace[a].attempts) :
       i = Len(trace[a].attempts) /\ trace[a].line \in {84, 90}}
\* the invocations that raised inside the handler's body
BodyFails(a) == {i \in 1..Len(trace[a].attempts) : Bound(a, i)} \ Returned(a)
\* the first invocation was rejected by the signature
Mismatched(a) == KnownAction(a) /\ 1 \in BindFails(a)
\* the supplied names that the mappings entry of the action knows
Reconcilable(a) ==
    IF trace[a].action \in DOMAIN mappings
    THEN (DOMAIN trace[a].params) \cap (DOMAIN mappings[trace[a].action])
    ELSE {}
IsText(res) == Len(res) >= 1 /\ \A i \in 1..Len(res) : res[i] \in STRING
HandlerInternalForm(res) == res[1] = "Unexpected error executing action"

----------------------------------------------------------------------------
(* Claims about execute_action, checked under SpecDispatch *)

\* C3: execute_action returns a text result and never raises, whatever the
\* action name and the keyword dict, and whether the handler returns, rejects
\* the keywords or fails in its body, with or without a retry.
C3_AlwaysText ==
    \A a \in AgentNames :
      Called(a) => /\ trace[a].raised = "none"
                   /\ IsText(trace[a].result)
                   /\ trace[a].line \in {84, 90, 93, 95, 98, 99}
\* a retry was made and the handler failed in its body during the retry
C3_Witness ==
    \E a \in AgentNames :
      Called(a) /\ trace[a].line = 93 /\ 2 \in BodyFails(a)

\* C4: a failure inside the handler's body gives the "Unexpected error
\* executing action" text, and a keyword mismatch never gives that text.
C4_ErrorPathsDistinct ==
    \A a \in AgentNames :
      Called(a) =>
        /\ BodyFails(a) # {} => HandlerInternalForm(trace[a].result)
        /\ BindFails(a) # {} => ~HandlerInternalForm(trace[a].result)

\* C5: when the first invocation fails inside the handler's body, the
\* mappings table is not consulted and the handler is not invoked again.
C5_BodyFailureNotRetried ==
    \A a \in AgentNames :
      (Called(a) /\ 1 \in BodyFails(a)) =>
        /\ ~trace[a].consulted
        /\ Len(trace[a].attempts) = 1
        /\ trace[a].bodies = 1

\* the dict the retry must be made with: the supplied parameters whose names
\* the mappings entry knows, each under its expected name
ExpectedRetry(a) ==
    [e \in {mappings[trace[a].action][k] : k \in Reconcilable(a)} |->
       trace[a].params[CHOOSE k \in Reconcilable(a) :
                         mappings[trace[a].action][k] = e]]

\* C6: when the first invocation is rejected by the signature and the
\* mappings entry of the action knows a supplied name, the handler is
\* retried exactly once, with exactly the known parameters under their
\* expected names, and the retry's result or error text is returned.
C6_RetryOnceWithMapped ==
    \A a \in AgentNames :
      (Called(a) /\ Mismatched(a) /\ Reconcilable(a) # {}) =>
        /\ Len(trace[a].attempts) = 2
        /\ trace[a].attempts[1] = trace[a].params
        /\ trace[a].attempts[2] = ExpectedRetry(a)
        /\ trace[a].line \in {90, 93}
        /\ trace[a].raised = "none"
        /\ trace[a].line = 93 => trace[a].result[1] = "Error executing action"
\* a retry that dropped a stray parameter and whose handler returned
C6_Witness ==
    \E a \in AgentNames :
      /\ Called(a) /\ Mismatched(a) /\ Reconcilable(a) # {}
      /\ trace[a].line = 90
      /\ (DOMAIN trace[a].params) \cap StrayNames # {}
      /\ trace[a].bodies = 1

\* C7: when the first invocation is rejected by the signature and the table
\* has no entry for the action, or the entry knows none of the supplied
\* names, the handler is not invoked again and the error text names the
\* action and the rejection.
C7_NoRetryWithoutMapping ==
    \A a \in AgentNames :
      (Called(a) /\ Mismatched(a) /\ Reconcilable(a) = {}) =>
        /\ trace[a].attempts = <<trace[a].params>>
        /\ trace[a].bodies = 0
        /\ trace[a].line = 95
        /\ trace[a].raised = "none"
        /\ trace[a].result =
             <<"Error executing action", trace[a].action,
               BindError(ClassOf(a), trace[a].action, trace[a].params)>>
        /\ trace[a].dom = trace[a].before /\ domain[a] = trace[a].before
\* a mismatched call of an action that has an entry, with none of its names
C7_Witness ==
    \E a \in AgentNames :
      /\ Called(a) /\ Mismatched(a) /\ Reconcilable(a) = {}
      /\ trace[a].action \in DOMAIN mappings
      /\ trace[a].params # <<>>
      /\ trace[a].line = 95

\* the call of the scenario: write_code on the DeveloperAgent with the
\* keywords name and body
WriteCodeNameBody(a) ==
    /\ Called(a)
    /\ ClassOf(a) = "DeveloperAgent"
    /\ trace[a].action = "write_code"
    /\ trace[a].params = [name |-> "x", body |-> "y"]

\* C8 as stated: write_code with {name: "x", body: "y"} is retried with
\* {feature_name: "x", code: "y"} and returns the handler's success text.
C8_WriteCodeReconciled ==
    \A a \in AgentNames :
      WriteCodeNameBody(a) =>
        /\ Len(trace[a].attempts) = 2
        /\ trace[a].attempts[2] = [feature_name |-> "x", code |-> "y"]
        /\ trace[a].result = <<"Code written for", "x">>

\* C8 amended: mappings has no entry for write_code, so write_code with
\* {name: "x", body: "y"} is rejected by the signature, is not retried,
\* leaves the codebase as it was, and returns the error text of line 95.
C8_WriteCodeNotReconciled ==
    \A a \in AgentNames :
      WriteCodeNameBody(a) =>
        /\ trace[a].attempts = <<[name |-> "x", body |-> "y"]>>
        /\ trace[a].bodies = 0
        /\ trace[a].consulted /\ ~trace[a].mapped.some
        /\ trace[a].result = <<"Error executing action", "write_code",
                               "got an unexpected keyword argument">>
        /\ trace[a].dom = trace[a].before /\ domain[a] = trace[a].before
C8_Witness ==
    \E a \in AgentNames : WriteCodeNameBody(a) /\ trace[a].line = 95

\* C9 as stated: a call whose keywords match the signature invokes the
\* handler exactly once, returns what the handler returned, and does not
\* call map_parameters.
C9_MatchingCallDirect ==
    \A a \in AgentNames :
      (Called(a) /\ KnownAction(a) /\ 1 \notin BindFails(a)) =>
        /\ trace[a].attempts = <<trace[a].params>>
        /\ trace[a].bodies = 1
        /\ ~trace[a].consulted
        /\ BodyFails(a) = {} => trace[a].line = 84

\* C10: for an action name that is not in the agent's action map,
\* execute_action returns exactly "Unknown action: <name>", invokes no
\* handler, does not call map_parameters and does not raise.
C10_UnknownAction ==
    \A a \in AgentNames :
      (Called(a) /\ ~KnownAction(a)) =>
        /\ trace[a].result = <<"Unknown action", trace[a].action>>
        /\ trace[a].attempts = <<>>
        /\ trace[a].bodies = 0
        /\ ~trace[a].consulted
        /\ trace[a].raised = "none"
        /\ trace[a].gen = 0
        /\ trace[a].dom = trace[a].before /\ domain[a] = trace[a].before
\* another class's action, with keywords, on an agent whose dict is filled
C10_Witness ==
    \E a \in AgentNames :
      /\ Called(a) /\ ~KnownAction(a)
      /\ trace[a].action \in AllActions
      /\ trace[a].params # <<>>
      /\ domain[a] # EmptyDict

----------------------------------------------------------------------------
(* Claims about the agent loop and the scheduler *)

\* the messages of a role in an agent's log (no message is evicted while
\* the log is shorter than max_messages)
RoleCount(a, role) ==
    Cardinality({i \in 1..Len(memory[a]) : memory[a][i].role = role})
\* the agent's run has ended: it returned, or an exception left it
Ended(a) == pc[a] \in {"done", "failed"}

\* C1 as stated, checked under SpecLoop: a run with max_iterations = k
\* appends exactly k "experience" messages, whatever the Generator returns.
C1_ExactlyKExperiences ==
    \A a \in AgentNames : Ended(a) => RoleCount(a, "experience") = MaxIter

\* C2, checked under Spec: main logs an exception for exactly the agents
\* whose own run raised, and a completion for every other agent, each of
\* which has run all MaxIter iterations; an agent's run fails only by an
\* exception of its own act, and main displays only after all are logged.
C2_FailureIsolated ==
    \A a \in Agents :
      /\ status[a] = "exception" => pc[a] = "failed"
      /\ status[a] = "completed" =>
           /\ pc[a] = "done" /\ iter[a] = MaxIter
           /\ RoleCount(a, "experience") = MaxIter
      /\ pc[a] = "failed" => trace[a].raised # "none"
      /\ mainpc = "displayed" => status[a] # "none"
\* main is through: one agent failed in its first iteration, and an agent
\* that acted after that failure completed all its iterations
C2_Witness ==
    /\ mainpc = "displayed"
    /\ \E a, b \in Agents :
         /\ status[a] = "exception" /\ iter[a] = 0
         /\ status[b] = "completed" /\ iter[b] = MaxIter

----------------------------------------------------------------------------
(* Claims about the memory log, checked under SpecLog *)

\* the last n entries of a sequence, all of it when it is shorter
LastEntries(seq, n) == SubSeq(seq, Len(seq) - Min(n, Len(seq)) + 1, Len(seq))
ContentsOf(seq) == [i \in 1..Len(seq) |-> seq[i].content]

\* C12 as stated: get_context(n) returns exactly min(n, log length) entries
\* for every n >= 0, n = 0 included, and they are the most recent entries of
\* the log, contiguous and in their original order.
C12_ContextLastN ==
    (context.called /\ context.last_n >= 0) =>
      /\ Len(context.value) = Min(context.last_n, Len(history.messages))
      /\ context.value = LastEntries(history.messages, context.last_n)

\* C13: after every add_message, whatever was appended and whatever the
\* capacity, the log is no longer than its max_messages.
C13_LengthAtMostCapacity == Len(history.messages) <= history.max_messages
\* more messages were appended than the log can hold, and it is full
C13_Witness ==
    /\ Len(appended) > history.max_messages + 1
    /\ history.max_messages > 0
    /\ Len(history.messages) = history.max_messages

\* the appends and the get_context call of the scenario
ScenarioABCD ==
    /\ history.max_messages = 3
    /\ ContentsOf(appended) = <<"A", "B", "C", "D">>
    /\ context.called /\ context.last_n = 10

\* C14: the log holds exactly the last min(|s|, c) of the messages s that
\* were appended, in append order; with c = 3 and the appends A, B, C, D,
\* get_context(10) returns B, C, D.
C14_LastMessagesKept ==
    /\ history.messages = LastEntries(appended, history.max_messages)
    /\ ScenarioABCD => ContentsOf(context.value) = <<"B", "C", "D">>
C14_Witness == ScenarioABCD /\ Len(context.value) = 3

----------------------------------------------------------------------------
(* Claims about one iteration of the agent loop, checked under SpecLoop *)

\* the k-th message from the end of an agent's log (0: the last one)
FromEnd(a, k) == memory[a][Len(memory[a]) - k]
\* the iteration of the agent's current Thought has appended its
\* "experience" message
Learned(a) == pc[a] \in {"think", "done"} /\ iter[a] > 0
\* the agent's last act invoked no handler and made no Generator call
NoHandlerInvoked(a) ==
    /\ trace[a].attempts = <<>> /\ trace[a].bodies = 0
    /\ trace[a].gen = 0 /\ ~trace[a].consulted /\ trace[a].line = 0
\* the three messages of an iteration whose Thought is t and whose act
\* returned res
AgentMessage(t) == [role |-> "agent", content |-> json_dumps(t)]
EnvironmentMessage(res) ==
    [role |-> "environment", content |-> <<"Action result", res>>]
ExperienceMessage(t, res) ==
    [role |-> "experience", content |-> json_dumps([thought |-> t, action |-> res])]

\* the Thought that generate_response yields when the Generator call fails:
\* a dict with neither 'content' nor 'tool_calls'
GenerationFailed(a) ==
    /\ pc[a] \in {"act", "learn", "failed"} \/ Learned(a)
    /\ ~thought[a].has_content /\ ~thought[a].has_tool_calls

\* C11: in an iteration whose Generator call failed, think appends the
\* serialized empty Thought as an "agent" message, act invokes no handler
\* and appends the "No actionable instruction found in: " result as an
\* "environment" message, learn appends the experience pair, and nothing
\* is raised.
C11_GeneratorFailure ==
    \A a \in AgentNames :
      LET t == Thought(FALSE, "", FALSE, <<>>)
          res == <<"No actionable instruction found in", "">>
          n == Len(memory[a])
      IN  GenerationFailed(a) =>
            /\ pc[a] # "failed"
            /\ pc[a] = "act" => n >= 1 /\ FromEnd(a, 0) = AgentMessage(t)
            /\ pc[a] = "learn" =>
                 /\ n >= 2
                 /\ FromEnd(a, 1) = AgentMessage(t)
                 /\ FromEnd(a, 0) = EnvironmentMessage(res)
                 /\ result[a] = res
                 /\ NoHandlerInvoked(a) /\ domain[a] = trace[a].before
            /\ Learned(a) =>
                 /\ n >= 3
                 /\ FromEnd(a, 2) = AgentMessage(t)
                 /\ FromEnd(a, 1) = EnvironmentMessage(res)
                 /\ FromEnd(a, 0) = ExperienceMessage(t, res)
                 /\ NoHandlerInvoked(a)
\* the Generator call of the last iteration failed, after an iteration that
\* dispatched a tool call, and the run has returned
C11_Witness ==
    \E a \in AgentNames :
      /\ GenerationFailed(a) /\ pc[a] = "done" /\ iter[a] = MaxIter
      /\ Len(memory[a]) = 3 * MaxIter
      /\ FromEnd(a, 0).role = "experience"
      /\ \E i \in 1..Len(memory[a]) :
           memory[a][i].role = "agent" /\ memory[a][i].content[2].has_tool_calls

----------------------------------------------------------------------------
(* Claims about main, checked under Spec *)

\* main has logged the outcome of agent a's future
Logged(a) == status[a] \in {"completed", "exception"}

\* C15: main does not call display_agent_data until every agent's run has
\* completed or failed, and by then one outcome is logged for each agent;
\* an outcome, once logged, is not logged again or changed, and nothing is
\* logged for a run that has not ended.
C15_DisplayAfterAll ==
    /\ [](\A a \in Agents :
            /\ mainpc = "displayed" => (Ended(a) /\ Logged(a))
            /\ Logged(a) => Ended(a))
    /\ [][\A a \in Agents : Logged(a) => status'[a] = status[a]]_vars
\* main has displayed after every agent completed all its iterations
C15_Witness ==
    /\ mainpc = "displayed"
    /\ \A a \in Agents : status[a] = "completed" /\ iter[a] = MaxIter

\* what agent a's last act would have recorded had no other agent taken a
\* step: developer.codebase is then still the empty dict it was constructed
\* with
ActAlone(a, replies) ==
    act(ClassOf(a), thought[a], trace[a].before, replies, developer_bound, EmptyDict)

\* C16 as stated: what an agent's act does depends only on its own Thought,
\* its own dicts and the Generator's replies, and not on the steps another
\* agent has taken before it; TesterAgent.run_tests does not observe the
\* codebase that DeveloperAgent writes.
C16_NoSharedState ==
    \A a \in Agents :
      pc[a] \in {"learn", "failed"} =>
        \E replies \in ReplySeqs : trace[a] = ActAlone(a, replies)

----------------------------------------------------------------------------
(* Further claims about the agent loop *)

\* the agent has a Thought of the current iteration and it carries no tool
\* call: the key 'tool_calls' is absent, or its list is empty
NoToolCall(a) ==
    /\ pc[a] \in {"learn", "failed"} \/ Learned(a)
    /\ ~thought[a].has_tool_calls \/ Len(thought[a].tool_calls) = 0

\* C17 as stated, checked under SpecLoop: when the Thought carries no tool
\* call (tool_calls absent, or present but empty), act invokes no handler,
\* returns "No actionable instruction found in: <content or empty>", appends
\* it as an "environment" message, and does not raise.
C17_NoToolCallNoRaise ==
    \A a \in AgentNames :
      NoToolCall(a) =>
        /\ pc[a] # "failed" /\ trace[a].raised = "none"
        /\ NoHandlerInvoked(a)
        /\ result[a] = <<"No actionable instruction found in",
                         IF thought[a].has_content THEN thought[a].content ELSE "">>
        /\ FromEnd(a, IF pc[a] = "learn" THEN 0 ELSE 1) =
             EnvironmentMessage(result[a])

\* the messages the current iteration of agent a has appended so far
StepsDone(a) ==
    CASE pc[a] \in {"act", "failed"} -> 1
      [] pc[a] = "learn" -> 2
      [] OTHER -> 0
\* the role of the j-th message of a log that holds whole iterations
RoleAt(j) ==
    CASE j % 3 = 1 -> "agent"
      [] j % 3 = 2 -> "environment"
      [] OTHER -> "experience"
\* the messages (3i+1, 3i+2, 3i+3) of agent a's log are those of one
\* iteration: a Thought, the result of acting on it, and the pair of both
OneIteration(a, i) ==
    \E t \in {memory[a][3 * i + 1].content[2]} :
      \E res \in {memory[a][3 * i + 2].content[2]} :
        /\ memory[a][3 * i + 1] = AgentMessage(t)
        /\ memory[a][3 * i + 2] = EnvironmentMessage(res)
        /\ memory[a][3 * i + 3] = ExperienceMessage(t, res)

\* C18, checked under Spec: within one agent every iteration appends its
\* "agent", "environment" and "experience" messages in this order, and the
\* think of iteration i+1 appends only after the learn of iteration i has
\* appended its experience message, however the agents interleave.
C18_StrictOrder ==
    \A a \in Agents :
      /\ Len(memory[a]) = 3 * iter[a] + StepsDone(a)
      /\ \A j \in 1..Len(memory[a]) : memory[a][j].role = RoleAt(j)
      /\ \A i \in 0..(iter[a] - 1) : OneIteration(a, i)
      /\ pc[a] \in {"act", "learn", "failed"} =>
           memory[a][3 * iter[a] + 1] = AgentMessage(thought[a])
\* an agent is in the think-act gap of its second iteration while another
\* agent is still inside its first
C18_Witness ==
    \E a, b \in Agents :
      /\ pc[a] = "act" /\ iter[a] = 1 /\ Len(memory[a]) = 4
      /\ pc[b] = "learn" /\ iter[b] = 0

----------------------------------------------------------------------------
(* Termination, checked under SpecFair *)

\* every agent's run ends, by returning or by an exception, and main gets
\* through collecting and displays
EveryRunEnds == <>[](mainpc = "displayed" /\ \A a \in Agents : Ended(a))

\* C19 as stated: every agent's run eventually reaches its terminal state
\* after exactly max_iterations iterations, with no early exit, and main
\* eventually finishes collecting all agents.
C19_AllRunToEnd ==
    <>[](/\ \A a \in Agents : pc[a] = "done" /\ iter[a] = MaxIter
         /\ \A a \in Agents : status[a] = "completed")

----------------------------------------------------------------------------
(* Generator calls, checked under SpecLoop *)

\* C20 as stated: the Generator is called only in think, once per
\* iteration; act (dispatch, handler execution and reconciliation) makes no
\* Generator call.
C20_GeneratorOnlyInThink ==
    \A a \in AgentNames : Called(a) => trace[a].gen = 0

----------------------------------------------------------------------------
(* Dispatch of the first tool call, checked under SpecLoop *)

\* the agent has acted on a Thought that carries at least one tool call
ActedOnToolCalls(a) ==
    /\ pc[a] = "learn" \/ Learned(a)
    /\ thought[a].has_tool_calls /\ Len(thought[a].tool_calls) >= 1

\* C21: when the Thought carries one or more tool calls, act makes one
\* execute_action call, for the tool call at index 0: the recorded call has
\* that tool call's name and arguments, the agent's dicts are as that call
\* left them, one "environment" message holds its result, and no handler of
\* a later tool call has run.
C21_FirstToolCallOnly ==
    \A a \in AgentNames :
      ActedOnToolCalls(a) =>
        LET first == thought[a].tool_calls[1]
        IN  /\ trace[a].action = first.name
            /\ trace[a].params = first.arguments
            /\ \E replies \in ReplySeqs :
                 trace[a] = execute_action(ClassOf(a), first.name, first.arguments,
                                           trace[a].before, replies,
                                           developer_bound, domain["developer"])
            /\ domain[a] = trace[a].dom
            /\ result[a] = trace[a].result
            /\ FromEnd(a, IF pc[a] = "learn" THEN 0 ELSE 1) =
                 EnvironmentMessage(trace[a].result)
            /\ RoleCount(a, "environment") =
                 iter[a] + (IF pc[a] = "learn" THEN 1 ELSE 0)
\* the Thought has two tool calls, the first names no action of the agent
\* and the second names a handler that would have changed the agent's dict
C21_Witness ==
    \E a \in AgentNames :
      /\ ActedOnToolCalls(a) /\ pc[a] = "learn"
      /\ Len(thought[a].tool_calls) = 2
      /\ thought[a].tool_calls[2].name \in get_action_map(ClassOf(a))
      /\ execute_action(ClassOf(a), thought[a].tool_calls[2].name,
                        thought[a].tool_calls[2].arguments, trace[a].before,
                        [i \in 1..2 |-> "g"], developer_bound,
                        domain["developer"]).dom # trace[a].before
      /\ domain[a] = trace[a].before
      /\ trace[a].result = <<"Unknown action", "nonexistent_action">>

----------------------------------------------------------------------------
(* Frame of an agent's steps, checked under Spec *)

\* the step is one of agent b's run: its worker moved
StepOf(b) == pc'[b] # pc[b]

\* C22: a step of one agent's worker, also the one in which its run fails,
\* leaves every other agent's Memory Log and dicts unchanged, and so do
\* main's steps: an agent's log and dicts change only in its own steps.
\* A run that has ended keeps its log and dicts whatever the others do.
C22_OwnStateOnly ==
    [][\A a \in Agents :
         /\ ~StepOf(a) => (memory'[a] = memory[a] /\ domain'[a] = domain[a])
         /\ Ended(a) => (memory'[a] = memory[a] /\ domain'[a] = domain[a])
         /\ \A b \in Agents \ {a} :
              StepOf(b) => (memory'[a] = memory[a] /\ domain'[a] = domain[a])]_vars
\* one agent's run failed after it had written to its dict, and another
\* agent, which wrote to its own dict, has completed with its whole log
C22_Witness ==
    \E a, b \in Agents :
      /\ pc[a] = "failed" /\ domain[a] # EmptyDict
      /\ pc[b] = "done" /\ domain[b] # EmptyDict
      /\ Len(memory[b]) = 3 * MaxIter
      /\ status[a] = "exception" /\ status[b] = "completed"

----------------------------------------------------------------------------
(* Shape of the memory log, checked under SpecLoop *)

\* C23: in every reachable state the roles of an agent's log are a prefix
\* of (agent, environment, experience) repeated, so that the counts satisfy
\* agent >= environment >= experience >= agent - 1, also when a failure
\* has cut the run short.
C23_RolePrefix ==
    \A a \in AgentNames :
      /\ \A j \in 1..Len(memory[a]) : memory[a][j].role = RoleAt(j)
      /\ RoleCount(a, "agent") >= RoleCount(a, "environment")
      /\ RoleCount(a, "environment") >= RoleCount(a, "experience")
      /\ RoleCount(a, "experience") + 1 >= RoleCount(a, "agent")
      /\ RoleCount(a, "agent") + RoleCount(a, "environment")
           + RoleCount(a, "experience") = Len(memory[a])
\* a run that failed in its second iteration: one whole iteration and the
\* "agent" message of the one that failed
C23_Witness ==
    \E a \in AgentNames :
      /\ pc[a] = "failed" /\ iter[a] = 1
      /\ RoleCount(a, "agent") = 2
      /\ RoleCount(a, "environment") = 1
      /\ RoleCount(a, "experience") = 1

----------------------------------------------------------------------------
(* Effects of a call that ends in an error text, checked under SpecLoop *)

\* the recorded call returned the unknown-action text, or the "Error
\* executing action" text of a rejected call that was not retried or whose
\* retry failed
EndedInErrorText(a) == Called(a) /\ trace[a].line \in {93, 95, 99}

\* C24: when execute_action returns the unknown-action text or the error
\* text of a mismatch without a successful retry, the agent's dicts are as
\* they were before the call; and the call itself appends nothing to the
\* log: each act appends one "environment" message, the one with the text
\* the call returned.
C24_ErrorLeavesState ==
    \A a \in AgentNames :
      /\ EndedInErrorText(a) =>
           (trace[a].dom = trace[a].before /\ domain[a] = trace[a].before)
      /\ Len(memory[a]) = 3 * iter[a] + StepsDone(a)
      /\ RoleCount(a, "environment") = iter[a] + (IF pc[a] = "learn" THEN 1 ELSE 0)
      /\ (pc[a] = "learn" /\ Called(a)) =>
           FromEnd(a, 0) = EnvironmentMessage(trace[a].result)
\* a rejected call that ended in the error text, in the second iteration, on
\* an agent whose dict the first iteration had filled
C24_Witness ==
    \E a \in AgentNames :
      /\ EndedInErrorText(a) /\ Mismatched(a)
      /\ pc[a] = "learn" /\ iter[a] = 1
      /\ domain[a] # EmptyDict
      /\ Len(memory[a]) = 5

----------------------------------------------------------------------------
(* The report_findings entry of the table, checked under SpecDispatch *)

\* the recorded call is a report_findings call that the signature rejected
ReportFindingsMismatch(a) ==
    Called(a) /\ trace[a].action = "report_findings" /\ Mismatched(a)

\* C25: the entry report_findings: {message -> findings} never makes a
\* retry succeed.  On ResearchAgent (topic, findings) and on
\* CustomSpecialistAgent (task) every rejected report_findings call returns
\* an "Error executing action" text, whatever the keywords: the handler's
\* body never runs, and a retry, when one is made, is made with findings
\* alone and is rejected too.
C25_ReportFindingsNeverReconciled ==
    \A a \in AgentNames :
      ReportFindingsMismatch(a) =>
        /\ ClassOf(a) \in {"ResearchAgent", "CustomSpecialistAgent"}
        /\ trace[a].line \in {93, 95}
        /\ trace[a].result[1] = "Error executing action"
        /\ trace[a].result[2] = "report_findings"
        /\ trace[a].bodies = 0
        /\ BindFails(a) = 1..Len(trace[a].attempts)
        /\ Len(trace[a].attempts) = 2 =>
             DOMAIN trace[a].attempts[2] = {"findings"}
        /\ trace[a].dom = trace[a].before
\* a retry was made: message was supplied to the ResearchAgent together
\* with topic, and the retry with findings alone was rejected
C25_Witness ==
    /\ \E a \in AgentNames :
         /\ ReportFindingsMismatch(a) /\ ClassOf(a) = "ResearchAgent"
         /\ DOMAIN trace[a].params = {"message", "topic"}
         /\ trace[a].line = 93

----------------------------------------------------------------------------
(* Length of the log after a whole run, checked under SpecRun *)

\* the three messages that iteration i of a run on RunThoughts appends
IterationMessages(i) ==
    LET t == CHOOSE t \in RunThoughts(i) : TRUE
        res == NoInstructionText(t)
    IN  <<AgentMessage(t), EnvironmentMessage(res), ExperienceMessage(t, res)>>
\* every message that a run of k iterations appends, in order
RunMessages(k) ==
    [j \in 1..(3 * k) |-> IterationMessages((j - 1) \div 3)[((j - 1) % 3) + 1]]
\* message m is in agent a's log
InLog(a, m) == \E j \in 1..Len(memory[a]) : memory[a][j] = m

\* C26: after a run of k iterations that did not fail, the log's length is
\* min(3k, max_messages) and the log is the end of what the run appended.
\* With max_messages = 100 and main's k = 10 nothing was evicted and the
\* log, which display_agent_data dumps whole, holds all 30 messages; when
\* 3k > max_messages the earliest messages of the run are not in the log.
C26_LogLengthAfterRun ==
    \A a \in AgentNames :
      pc[a] = "done" =>
        LET k == max_iterations
            all == RunMessages(k)
        IN  /\ iter[a] = k
            /\ Len(memory[a]) = Min(3 * k, max_messages)
            /\ memory[a] = LastEntries(all, max_messages)
            /\ k = entry_max_iterations =>
                 (Len(memory[a]) = 30 /\ memory[a] = all)
            /\ 3 * k > max_messages =>
                 \A j \in 1..(3 * k - max_messages) : ~InLog(a, all[j])
\* a run of LongRun iterations has ended: the log is full, and the "agent"
\* message of the first iteration is no longer its first entry
C26_Witness ==
    \E a \in AgentNames :
      /\ pc[a] = "done" /\ max_iterations = LongRun /\ 3 * LongRun > max_messages
      /\ Len(memory[a]) = max_messages
      /\ memory[a][1] # AgentMessage(Thought(TRUE, ToString(0), FALSE, <<>>))
====
